---- MODULE Spec2Model ----
\* Verification model of the global package cache (package cache) and of the
\* syntax-node classifier and resolver (internal/lsp/source/ast.go).
EXTENDS Integers, Sequences, FiniteSets, TLC

\* ------------------------------------------------------------------ bounds
\* Number of distinct import paths of the descriptor graph.
NPaths == 3
\* Number of goroutines calling into the cache concurrently.
NThreads == 2
\* Number of cache calls (Add, Put, Get, Walk) made in one behaviour.
MaxCalls == 3

Paths == 1..NPaths
Threads == 1..NThreads
\* The nil pointer / absent map entry.
Nil == 0

VARIABLES
    desc,      \* the packages.Package graph: import path -> Imports (sequence of paths)
    units,     \* heap of *pkg instances: sequence of [pkgPath, imports]
    pathMap,   \* globalCache.pathMap: import path -> *pkg held by the globalPackage (Nil: absent)
    mu,        \* globalCache.mu: [w: thread holding or waiting for the write lock, active, r: read holds]
    pc,        \* per goroutine: position in the cache call it is executing
    stack,     \* per goroutine: recursiveAdd activation records, innermost last
    arg,       \* per goroutine: argument of the current call (root path, unit, import path)
    ret,       \* per goroutine: value returned by the last Get
    walk,      \* per goroutine: state of the range loop of walk and the visitor's call log
    calls,     \* number of cache calls made so far
    addLog,    \* per root: the number of Add calls on it that have returned
    declRes    \* result of the last getObjectPathNode call

cacheVars == <<desc, units, pathMap, mu, pc, stack, arg, ret, walk, calls, addLog, declRes>>

VARIABLES
    qFiles,   \* the files of the unit queried, in order
    qStart,   \* the start position of the query (end = start)
    qRes      \* the result of getPathNodes, once called

encVars == <<qFiles, qStart, qRes>>

VARIABLES
    cpath0,   \* the path findInterestingNode was called with (innermost first)
    cpath,    \* the local variable path of the loop
    cact,     \* the action returned ("none" while the loop runs)
    cst       \* "build": the caller is still walking down the tree to its node,
              \* "run": in the loop, "done": returned, "panic": run-time panic

classVars == <<cpath0, cpath, cact, cst>>

vars == <<cacheVars, encVars, classVars>>

\* ------------------------------------------------------- descriptor graphs
RECURSIVE AscSeq(_)
AscSeq(S) ==
    IF S = {} THEN <<>>
    ELSE LET m == CHOOSE x \in S : \A y \in S : x <= y
         IN  <<m>> \o AscSeq(S \ {m})

\* Import graphs of Go packages are acyclic: a package imports only paths
\* that come later in a topological order.
DescGraphs ==
    { [p \in Paths |-> AscSeq(g[p])] :
        g \in { h \in [Paths -> SUBSET Paths] : \A p \in Paths : \A q \in h[p] : q > p } }

RECURSIVE ReachFrom(_, _)
ReachFrom(d, S) ==
    LET N == S \cup UNION { { d[p][i] : i \in 1..Len(d[p]) } : p \in S }
    IN  IF N = S THEN S ELSE ReachFrom(d, N)

\* ------------------------------------------------------------- sync.RWMutex
\* RLock blocks while a writer holds or waits for the lock.
CanRLock == mu.w = Nil
\* Lock first excludes other writers and announces itself to readers ...
CanLockRequest == mu.w = Nil
\* ... then waits for the active readers to leave.
CanLockAcquire(t) == mu.w = t /\ ~mu.active /\ \A u \in Threads : mu.r[u] = 0

RLock(t) == [mu EXCEPT !.r[t] = @ + 1]
RUnlock(t) == [mu EXCEPT !.r[t] = @ - 1]
LockRequest(t) == [mu EXCEPT !.w = t]
LockAcquire(t) == [mu EXCEPT !.active = TRUE]
Unlock(t) == [mu EXCEPT !.w = Nil, !.active = FALSE]

\* ------------------------------------------------------------ pure helpers
\* newPackage: a fresh unit with an empty imports map.
newPackage(path) == [pkgPath |-> path, imports |-> [q \in Paths |-> Nil]]

\* pkg.addImport: p.imports[p.pkgPath] = ip (the key is the importer's own path).
addImport_keyedByImported(us, p, ip) == [us EXCEPT ![p].imports[us[ip].pkgPath] = ip]
addImport(us, p, ip) == [us EXCEPT ![p].imports[us[p].pkgPath] = ip]

\* globalCache.put: c.pathMap[pkg.GetTypes().Path()] = &globalPackage{pkg}.
put_notStored(pm, us, u) == pm
put(pm, us, u) == [pm EXCEPT ![us[u].pkgPath] = u]

\* globalCache.get: the unit mapped under pkgPath, or nil.
get(pm, path) == pm[path]

\* The map read of getGlobalPackage.
getGlobalPackage_alwaysMiss(pm, path) == Nil
getGlobalPackage(pm, path) == pm[path]

\* walk's loop body: return as soon as the visitor answers true.
walkReturns_never(r) == FALSE
walkReturns(r) == r

Top(t) == stack[t][Len(stack[t])]
SetTop(t, f) == [stack EXCEPT ![t][Len(stack[t])] = f]
Pop(t) == [stack EXCEPT ![t] = SubSeq(@, 1, Len(@) - 1)]
Frame(path, parent) == [pkg |-> path, parent |-> parent, p |-> Nil, i |-> 1, pc |-> "ggp_rlock"]

\* A unit instance is known only to the recursiveAdd call that constructed it
\* (its local p) until that call has run c.put(p).
Owned(u) == \E t \in Threads : \E i \in 1..Len(stack[t]) : stack[t][i].p = u
Instances(q) == { u \in 1..Len(units) : units[u].pkgPath = q }

NoWalk == [start |-> {}, seen |-> {}, log |-> <<>>, returned |-> FALSE]
NoDecl == [called |-> FALSE]

\* -------------------------------------------------------------------- Init
InitCache ==
    /\ desc \in DescGraphs
    /\ units = <<>>
    /\ pathMap = [p \in Paths |-> Nil]
    /\ mu = [w |-> Nil, active |-> FALSE, r |-> [t \in Threads |-> 0]]
    /\ pc = [t \in Threads |-> "idle"]
    /\ stack = [t \in Threads |-> <<>>]
    /\ arg = [t \in Threads |-> Nil]
    /\ ret = [t \in Threads |-> Nil]
    /\ walk = [t \in Threads |-> NoWalk]
    /\ calls = 0
    /\ addLog = [q \in Paths |-> 0]
    /\ declRes = NoDecl

\* --------------------------------------------------------------------- Add
\* Add(pkg): c.recursiveAdd(pkg, nil).
AddCall(t, root) ==
    /\ pc[t] = "idle" /\ calls < MaxCalls
    /\ pc' = [pc EXCEPT ![t] = "add"]
    /\ stack' = [stack EXCEPT ![t] = <<Frame(root, Nil)>>]
    /\ arg' = [arg EXCEPT ![t] = root]
    /\ calls' = calls + 1
    /\ ret' = [ret EXCEPT ![t] = Nil]
    /\ walk' = [walk EXCEPT ![t] = NoWalk]
    /\ declRes' = NoDecl
    /\ UNCHANGED <<desc, units, pathMap, mu, addLog>>
    /\ UNCHANGED <<encVars, classVars>>

\* Return from the innermost recursiveAdd; the outermost return ends Add.
AddReturn(t) ==
    /\ stack' = Pop(t)
    /\ IF Len(stack[t]) = 1
       THEN /\ pc' = [pc EXCEPT ![t] = "idle"]
            /\ addLog' = [addLog EXCEPT ![arg[t]] = @ + 1]
            /\ arg' = [arg EXCEPT ![t] = Nil]
       ELSE UNCHANGED <<pc, addLog, arg>>

\* getGlobalPackage: c.mu.RLock().
GgpRLock(t) ==
    /\ pc[t] = "add" /\ Top(t).pc = "ggp_rlock"
    /\ CanRLock
    /\ mu' = RLock(t)
    /\ stack' = SetTop(t, [Top(t) EXCEPT !.pc = "ggp_read"])
    /\ UNCHANGED <<desc, units, pathMap, pc, arg, ret, walk, calls, addLog, declRes>>
    /\ UNCHANGED <<encVars, classVars>>

\* getGlobalPackage: p := c.pathMap[pkgPath]; c.mu.RUnlock(); then in
\* recursiveAdd either the early return of a hit (wiring the parent's edge)
\* or newPackage(pkg) on a miss. Everything after RUnlock touches only the
\* calling goroutine's own data.
GgpRead(t) ==
    /\ pc[t] = "add" /\ Top(t).pc = "ggp_read"
    /\ mu' = RUnlock(t)
    /\ LET f == Top(t)
           p == getGlobalPackage(pathMap, f.pkg)
       IN  IF p # Nil
           THEN /\ units' = IF f.parent # Nil THEN addImport(units, f.parent, p) ELSE units
                /\ AddReturn(t)
           ELSE /\ units' = Append(units, newPackage(f.pkg))
                /\ stack' = SetTop(t, [f EXCEPT !.p = Len(units) + 1, !.pc = "loop"])
                /\ UNCHANGED <<pc, addLog, arg>>
    /\ UNCHANGED <<desc, pathMap, ret, walk, calls, declRes>>
    /\ UNCHANGED <<encVars, classVars>>

\* for _, ip := range pkg.Imports { c.recursiveAdd(ip, p) }: the next call.
AddRecurse(t) ==
    /\ pc[t] = "add" /\ Top(t).pc = "loop"
    /\ Top(t).i <= Len(desc[Top(t).pkg])
    /\ LET f == Top(t)
       IN  stack' = [stack EXCEPT ![t] =
                Append(SubSeq(@, 1, Len(@) - 1) \o <<[f EXCEPT !.i = @ + 1]>>,
                       Frame(desc[f.pkg][f.i], f.p))]
    /\ UNCHANGED <<desc, units, pathMap, mu, pc, arg, ret, walk, calls, addLog, declRes>>
    /\ UNCHANGED <<encVars, classVars>>

\* The range loop is exhausted: control reaches c.put(p), no lock taken.
AddLoopEnd(t) ==
    /\ pc[t] = "add" /\ Top(t).pc = "loop"
    /\ Top(t).i > Len(desc[Top(t).pkg])
    /\ stack' = SetTop(t, [Top(t) EXCEPT !.pc = "put"])
    /\ UNCHANGED <<desc, units, pathMap, mu, pc, arg, ret, walk, calls, addLog, declRes>>
    /\ UNCHANGED <<encVars, classVars>>

\* c.put(p); if parent != nil { parent.addImport(p) }; return.
AddPut(t) ==
    /\ pc[t] = "add" /\ Top(t).pc = "put"
    /\ LET f == Top(t)
       IN  /\ pathMap' = put(pathMap, units, f.p)
           /\ units' = IF f.parent # Nil THEN addImport(units, f.parent, f.p) ELSE units
    /\ AddReturn(t)
    /\ UNCHANGED <<desc, mu, ret, walk, calls, declRes>>
    /\ UNCHANGED <<encVars, classVars>>

\* --------------------------------------------------------------------- Put
\* Put(pkg) is called with a unit instance the caller can hold (one that has
\* left the recursiveAdd call that built it); c.mu.Lock() is still ahead.
PutCall(t, u) ==
    /\ pc[t] = "idle" /\ calls < MaxCalls
    /\ u \in 1..Len(units) /\ ~Owned(u)
    /\ pc' = [pc EXCEPT ![t] = "put_lock"]
    /\ arg' = [arg EXCEPT ![t] = u]
    /\ calls' = calls + 1
    /\ ret' = [ret EXCEPT ![t] = Nil]
    /\ walk' = [walk EXCEPT ![t] = NoWalk]
    /\ declRes' = NoDecl
    /\ UNCHANGED <<desc, units, pathMap, mu, stack, addLog>>
    /\ UNCHANGED <<encVars, classVars>>

\* c.mu.Lock(), first half: exclude other writers, hold off new readers.
PutLockRequest(t) ==
    /\ pc[t] = "put_lock"
    /\ CanLockRequest
    /\ mu' = LockRequest(t)
    /\ pc' = [pc EXCEPT ![t] = "put_wait"]
    /\ UNCHANGED <<desc, units, pathMap, stack, arg, ret, walk, calls, addLog, declRes>>
    /\ UNCHANGED <<encVars, classVars>>

\* c.mu.Lock(), second half: the readers have drained.
PutLockAcquire(t) ==
    /\ pc[t] = "put_wait"
    /\ CanLockAcquire(t)
    /\ mu' = LockAcquire(t)
    /\ pc' = [pc EXCEPT ![t] = "put_body"]
    /\ UNCHANGED <<desc, units, pathMap, stack, arg, ret, walk, calls, addLog, declRes>>
    /\ UNCHANGED <<encVars, classVars>>

\* c.put(pkg); c.mu.Unlock().
PutBody(t) ==
    /\ pc[t] = "put_body"
    /\ pathMap' = put(pathMap, units, arg[t])
    /\ mu' = Unlock(t)
    /\ pc' = [pc EXCEPT ![t] = "idle"]
    /\ arg' = [arg EXCEPT ![t] = Nil]
    /\ UNCHANGED <<desc, units, stack, ret, walk, calls, addLog, declRes>>
    /\ UNCHANGED <<encVars, classVars>>

\* --------------------------------------------------------------------- Get
GetCall(t, path) ==
    /\ pc[t] = "idle" /\ calls < MaxCalls
    /\ pc' = [pc EXCEPT ![t] = "get_rlock"]
    /\ arg' = [arg EXCEPT ![t] = path]
    /\ calls' = calls + 1
    /\ ret' = [ret EXCEPT ![t] = Nil]
    /\ walk' = [walk EXCEPT ![t] = NoWalk]
    /\ declRes' = NoDecl
    /\ UNCHANGED <<desc, units, pathMap, mu, stack, addLog>>
    /\ UNCHANGED <<encVars, classVars>>

GetRLock(t) ==
    /\ pc[t] = "get_rlock"
    /\ CanRLock
    /\ mu' = RLock(t)
    /\ pc' = [pc EXCEPT ![t] = "get_read"]
    /\ UNCHANGED <<desc, units, pathMap, stack, arg, ret, walk, calls, addLog, declRes>>
    /\ UNCHANGED <<encVars, classVars>>

\* p := c.get(pkgPath); c.mu.RUnlock(); return p.
GetRead(t) ==
    /\ pc[t] = "get_read"
    /\ ret' = [ret EXCEPT ![t] = get(pathMap, arg[t])]
    /\ mu' = RUnlock(t)
    /\ pc' = [pc EXCEPT ![t] = "idle"]
    /\ arg' = [arg EXCEPT ![t] = Nil]
    /\ UNCHANGED <<desc, units, pathMap, stack, walk, calls, addLog, declRes>>
    /\ UNCHANGED <<encVars, classVars>>

\* -------------------------------------------------------------------- Walk
WalkCall(t) ==
    /\ pc[t] = "idle" /\ calls < MaxCalls
    /\ pc' = [pc EXCEPT ![t] = "walk_rlock"]
    /\ arg' = [arg EXCEPT ![t] = Nil]
    /\ calls' = calls + 1
    /\ ret' = [ret EXCEPT ![t] = Nil]
    /\ walk' = [walk EXCEPT ![t] = NoWalk]
    /\ declRes' = NoDecl
    /\ UNCHANGED <<desc, units, pathMap, mu, stack, addLog>>
    /\ UNCHANGED <<encVars, classVars>>

\* c.mu.RLock(); defer c.mu.RUnlock(); the range loop starts on the map.
WalkRLock(t) ==
    /\ pc[t] = "walk_rlock"
    /\ CanRLock
    /\ mu' = RLock(t)
    /\ walk' = [walk EXCEPT ![t] =
            [start |-> { q \in Paths : pathMap[q] # Nil }, seen |-> {},
             log |-> <<>>, returned |-> FALSE]]
    /\ pc' = [pc EXCEPT ![t] = "walk_loop"]
    /\ UNCHANGED <<desc, units, pathMap, stack, arg, ret, calls, addLog, declRes>>
    /\ UNCHANGED <<encVars, classVars>>

\* One iteration: the range yields an entry not yet produced (in no defined
\* order), the visitor is called on its unit and answers r.
WalkVisit(t, k, r) ==
    /\ pc[t] = "walk_loop"
    /\ pathMap[k] # Nil /\ k \notin walk[t].seen
    /\ LET w == [walk[t] EXCEPT !.seen = @ \cup {k},
                                !.log = Append(@, [unit |-> pathMap[k], r |-> r])]
       IN  IF walkReturns(r)
           THEN /\ walk' = [walk EXCEPT ![t] = [w EXCEPT !.returned = TRUE]]
                /\ mu' = RUnlock(t)
                /\ pc' = [pc EXCEPT ![t] = "idle"]
           ELSE /\ walk' = [walk EXCEPT ![t] = w]
                /\ UNCHANGED <<mu, pc>>
    /\ UNCHANGED <<desc, units, pathMap, stack, arg, ret, calls, addLog, declRes>>
    /\ UNCHANGED <<encVars, classVars>>

\* The range is exhausted: every entry present when it started was produced
\* (an entry inserted meanwhile may or may not have been).
WalkEnd(t) ==
    /\ pc[t] = "walk_loop"
    /\ walk[t].start \subseteq walk[t].seen
    /\ walk' = [walk EXCEPT ![t].returned = TRUE]
    /\ mu' = RUnlock(t)
    /\ pc' = [pc EXCEPT ![t] = "idle"]
    /\ UNCHANGED <<desc, units, pathMap, stack, arg, ret, calls, addLog, declRes>>
    /\ UNCHANGED <<encVars, classVars>>

\* ------------------------------------------------- Walk, visitor calls Get
\* One iteration whose visitor reads the cache: the range yields entry k, the
\* visitor is called on its unit and calls c.Get with that unit's path;
\* c.mu.RLock() of Get is still ahead, the read lock of walk is held. r is
\* what the visitor will answer once Get has returned.
WalkVisitGet(t, k, r) ==
    /\ pc[t] = "walk_loop"
    /\ pathMap[k] # Nil /\ k \notin walk[t].seen
    /\ walk' = [walk EXCEPT ![t].seen = @ \cup {k},
                            ![t].log = Append(@, [unit |-> pathMap[k], r |-> r])]
    /\ arg' = [arg EXCEPT ![t] = k]
    /\ pc' = [pc EXCEPT ![t] = "visit_rlock"]
    /\ UNCHANGED <<desc, units, pathMap, mu, stack, ret, calls, addLog, declRes>>
    /\ UNCHANGED <<encVars, classVars>>

\* Get inside the visitor: c.mu.RLock(), a second read lock of goroutine t.
VisitGetRLock(t) ==
    /\ pc[t] = "visit_rlock"
    /\ CanRLock
    /\ mu' = RLock(t)
    /\ pc' = [pc EXCEPT ![t] = "visit_read"]
    /\ UNCHANGED <<desc, units, pathMap, stack, arg, ret, walk, calls, addLog, declRes>>
    /\ UNCHANGED <<encVars, classVars>>

\* Get inside the visitor: p := c.get(pkgPath); c.mu.RUnlock(); return p (to
\* the visitor, which keeps it to itself). The visitor then answers; on true
\* walk returns and its deferred RUnlock runs.
VisitGetRead(t) ==
    /\ pc[t] = "visit_read"
    /\ arg' = [arg EXCEPT ![t] = Nil]
    /\ UNCHANGED ret
    /\ IF walkReturns(walk[t].log[Len(walk[t].log)].r)
       THEN /\ walk' = [walk EXCEPT ![t].returned = TRUE]
            /\ mu' = [mu EXCEPT !.r[t] = @ - 2]
            /\ pc' = [pc EXCEPT ![t] = "idle"]
       ELSE /\ mu' = RUnlock(t)
            /\ pc' = [pc EXCEPT ![t] = "walk_loop"]
            /\ UNCHANGED walk
    /\ UNCHANGED <<desc, units, pathMap, stack, calls, addLog, declRes>>
    /\ UNCHANGED <<encVars, classVars>>

\* ---------------------------------------------------------------- map race
\* A goroutine executing put (the map assignment of line 43).
InPut(t) == pc[t] = "put_body" \/ (pc[t] = "add" /\ Top(t).pc = "put")

\* A goroutine about to read or range over pathMap (lines 56, 66, 83).
AtMapRead(t) ==
    \/ pc[t] \in {"get_read", "walk_loop"}
    \/ (pc[t] = "add" /\ Top(t).pc = "ggp_read")

\* Go maps are not safe for concurrent use: an access that meets another
\* goroutine's assignment in progress may or may not be caught by the run
\* time, which then ends the process ("concurrent map read and map write",
\* "concurrent map writes"). The uncaught outcomes are the other actions.
MapRaceFatal(t) ==
    /\ AtMapRead(t) \/ InPut(t)
    /\ \E u \in Threads \ {t} : InPut(u)
    /\ pc' = [u \in Threads |-> "fatal"]
    /\ UNCHANGED <<desc, units, pathMap, mu, stack, arg, ret, walk, calls, addLog, declRes>>
    /\ UNCHANGED <<encVars, classVars>>

\* The other uncaught outcome of two assignments racing on the map (the
\* c.put(p) of line 108 takes no lock): both complete and only one entry is
\* stored. The recursiveAdd call of goroutine t finishes its put and goes on,
\* and its entry is not in the map.
MapRaceLostWrite(t) ==
    /\ pc[t] = "add" /\ Top(t).pc = "put"
    /\ \E u \in Threads \ {t} : InPut(u)
    /\ units' = IF Top(t).parent # Nil
                THEN addImport(units, Top(t).parent, Top(t).p) ELSE units
    /\ AddReturn(t)
    /\ UNCHANGED <<desc, pathMap, mu, ret, walk, calls, declRes>>
    /\ UNCHANGED <<encVars, classVars>>

\* ---------------------------------------------------------------- resolver
\* Size in bytes of every source file of the model.
FileSize == 3
\* token.NoPos
NoPos == 0

\* A token.FileSet lays its files out one after the other: the k-th file has
\* base 1 + (k-1)*(FileSize+1) and covers base .. base+FileSize.
FileBase(k) == 1 + (k - 1) * (FileSize + 1)

\* An *ast.File: the root node, one declared identifier and one literal.
\* pos is f.Pos(), NoPos when the parser bailed out.
AstFile(k, valid) ==
    [ pos   |-> IF valid THEN FileBase(k) ELSE NoPos,
      base  |-> FileBase(k),
      size  |-> FileSize,
      root  |-> [kind |-> "File", file |-> k, pos |-> FileBase(k), end |-> FileBase(k) + FileSize],
      nodes |-> << [kind |-> "Ident", file |-> k, pos |-> FileBase(k) + 1, end |-> FileBase(k) + 2],
                   [kind |-> "BasicLit", file |-> k, pos |-> FileBase(k) + 2, end |-> FileBase(k) + 3] >> ]

\* createAstFiles: one astFile per file of p.Syntax; the descriptor of import
\* path q carries one parsed file, the q-th of the file set.
createAstFiles(q) == << AstFile(q, TRUE) >>

\* base <= pos < base + size
tokenFileContainsPos(f, pos) == f.base <= pos /\ pos < f.base + f.size

\* astutil.PathEnclosingInterval: the tightest node covering [start, end)
\* followed by its ancestors up to the *ast.File, which is always included.
PathEnclosingInterval(f, start, end) ==
    LET e == IF end = start THEN start + 1 ELSE end
        inner == { i \in 1..Len(f.nodes) : f.nodes[i].pos <= start /\ e <= f.nodes[i].end }
    IN  IF inner = {} THEN << f.root >>
        ELSE << f.nodes[CHOOSE i \in inner : TRUE], f.root >>

\* doEnclosingInterval: the loop over pkg.GetSyntax(), from file i on.
RECURSIVE scanFiles(_, _, _, _)
scanFiles_noContainsCheck(files, i, start, end) ==
    IF i > Len(files) THEN <<>>
    ELSE IF files[i].pos = NoPos THEN scanFiles(files, i + 1, start, end)
    ELSE PathEnclosingInterval(files[i], start, end)
scanFiles(files, i, start, end) ==
    IF i > Len(files) THEN <<>>
    ELSE IF files[i].pos = NoPos THEN scanFiles(files, i + 1, start, end)
    ELSE IF ~tokenFileContainsPos(files[i], start) THEN scanFiles(files, i + 1, start, end)
    ELSE LET path == PathEnclosingInterval(files[i], start, end)
         IN  IF path # <<>> THEN path ELSE scanFiles(files, i + 1, start, end)

\* doEnclosingInterval (a nil package or nil syntax is the empty file list).
doEnclosingInterval(files, start, end) == scanFiles(files, 1, start, end)

\* getPathNodes: the path, or the error "no node found at ...".
getPathNodes(files, start, end) ==
    LET nodes == doEnclosingInterval(files, start, end)
    IN  IF Len(nodes) = 0 THEN [nodes |-> nodes, err |-> "not-found"]
        ELSE [nodes |-> nodes, err |-> "none"]

\* fetchIdentFromPathNodes
fetchIdentFromPathNodes(nodes) ==
    IF nodes[1].kind = "Ident"
    THEN [nodes |-> nodes, ident |-> nodes[1], err |-> "none"]
    ELSE [nodes |-> nodes, ident |-> Nil, err |-> "invalid-node"]

\* pkg.GetSyntax(): the files made by createAstFiles at newPackage.
GetSyntax(us, u) == createAstFiles(us[u].pkgPath)

\* pkg.GetImport(pkgPath): the unit's imports map read under pkgPath.
GetImport(us, u, path) == us[u].imports[path]

\* getObjectPathNode(pkg, fset, o) for the unit u and the object o = [pkg, pos].
getObjectPathNode(us, u, o) ==
    LET first == getPathNodes(GetSyntax(us, u), o.pos, o.pos).nodes
    IN  IF Len(first) = 0
        THEN LET ip == GetImport(us, u, o.pkg)
             IN  IF ip = Nil
                 THEN [nodes |-> <<>>, ident |-> Nil, err |-> "missing-import"]
                 ELSE LET r == getPathNodes(GetSyntax(us, ip), o.pos, o.pos)
                      IN  IF r.err # "none"
                          THEN [nodes |-> <<>>, ident |-> Nil, err |-> r.err]
                          ELSE fetchIdentFromPathNodes(r.nodes)
        ELSE fetchIdentFromPathNodes(first)

\* The objects the type checker hands out: declared in package q at pos.
Objects == { [pkg |-> q, pos |-> FileBase(q) + d] : q \in Paths, d \in {1, 2} }

\* A query handler resolves the declaration of o starting from the cached unit
\* of import path a.
DeclarationNode(t, a, o) ==
    /\ pc[t] = "idle" /\ calls < MaxCalls
    /\ pathMap[a] # Nil
    /\ declRes' = [called |-> TRUE, unit |-> pathMap[a], obj |-> o,
                   res |-> getObjectPathNode(units, pathMap[a], o)]
    /\ calls' = calls + 1
    /\ ret' = [ret EXCEPT ![t] = Nil]
    /\ walk' = [walk EXCEPT ![t] = NoWalk]
    /\ UNCHANGED <<desc, units, pathMap, mu, pc, stack, arg, addLog>>
    /\ UNCHANGED <<encVars, classVars>>

\* --------------------------------------------------- EnclosingPath queries

\* Number of files of the unit queried.
MaxFiles == 3

RECURSIVE FileLists(_)
FileLists(n) ==
    IF n = 0 THEN { <<>> }
    ELSE { Append(fs, AstFile(n, v)) : fs \in FileLists(n - 1), v \in BOOLEAN }

InitEnclose ==
    /\ qFiles \in UNION { FileLists(n) : n \in 0..MaxFiles }
    /\ qStart \in 0..FileBase(MaxFiles + 1)
    /\ qRes = [called |-> FALSE]

IdleEnclose ==
    /\ qFiles = <<>> /\ qStart = 0 /\ qRes = [called |-> FALSE]

\* EnclosingPath(unit, start, start)
EnclosingPath ==
    /\ ~qRes.called
    /\ qRes' = [called |-> TRUE] @@ getPathNodes(qFiles, qStart, qStart)
    /\ UNCHANGED <<qFiles, qStart>>
    /\ UNCHANGED <<cacheVars, classVars>>

\* -------------------------------------------------------------- classifier

\* Longest ancestor path (number of nodes, file root included).
MaxDepth == 7

NoNode == [kind |-> "none"]

\* A syntax node: its Go type, the number of Specs or Names it holds, the
\* types.Object the type checker resolved for it (identifiers), whether
\* Types[n].IsType() (star expressions), and the child the classifier may
\* descend to (Specs[0], Name, Names[0], Sel).
Node(kind, n, obj, isType, child) ==
    [kind |-> kind, n |-> n, obj |-> obj, isType |-> isType, child |-> child]

Leaf(kind) == Node(kind, 0, "none", FALSE, NoNode)
Ident(obj) == Node("Ident", 0, obj, FALSE, NoNode)

ObjKinds == {"PkgName", "Const", "Label", "TypeName", "Var", "Func", "Builtin", "Nil"}
Idents == { Ident(o) : o \in ObjKinds \cup {"none"} }

CompositeTypes == {"ArrayType", "StructType", "FuncType", "InterfaceType", "MapType", "ChanType"}

ValueSpecs ==
    { Node("ValueSpec", 1, "none", FALSE, Ident(o)) : o \in {"Var", "Const", "none"} }
        \cup { Node("ValueSpec", 2, "none", FALSE, Ident("Var")) }
TypeSpecs == { Node("TypeSpec", 0, "none", FALSE, Ident(o)) : o \in {"TypeName", "none"} }
Specs == { Leaf("ImportSpec") } \cup ValueSpecs \cup TypeSpecs
GenDecls ==
    { Node("GenDecl", 1, "none", FALSE, s) : s \in Specs }
        \cup { Node("GenDecl", 2, "none", FALSE, Leaf("ImportSpec")) }
FuncDecls == { Node("FuncDecl", 0, "none", FALSE, Ident(o)) : o \in {"Func", "none"} }
Fields ==
    { Node("Field", 1, "none", FALSE, Ident(o)) : o \in {"Var", "Func", "none"} }
        \cup { Node("Field", 0, "none", FALSE, NoNode),
               Node("Field", 2, "none", FALSE, Ident("Var")) }
\* Uses[n.Sel] is the object of the child; "none" is the nil entry.
Selectors ==
    { Node("SelectorExpr", 0, "none", FALSE, Ident(o)) :
        o \in {"Var", "Func", "Const", "TypeName", "Builtin", "none"} }
Stars == { Node("StarExpr", 0, "none", b, NoNode) : b \in BOOLEAN }
TypeExprs == { Leaf(k) : k \in CompositeTypes } \cup { Ident("TypeName") } \cup { s \in Stars : s.isType }

\* The children a node of each Go type can have in a parsed file.
Children(p) ==
    CASE p.kind = "File" ->
            GenDecls \cup FuncDecls \cup { Ident("none"), Leaf("CommentGroup") }
      [] p.kind = "CommentGroup" -> { Leaf("Comment") }
      [] p.kind = "GenDecl" -> IF p.n = 1 THEN { p.child } ELSE Specs
      [] p.kind = "FuncDecl" ->
            { p.child, Leaf("FieldList"), Leaf("FuncType"), Leaf("Stmt") }
      [] p.kind = "ImportSpec" -> { Ident("PkgName"), Ident("none"), Leaf("BasicLit") }
      [] p.kind = "ValueSpec" ->
            (IF p.n = 1 THEN { p.child } ELSE { Ident("Var"), Ident("Const"), Ident("none") })
                \cup TypeExprs \cup { Leaf("BasicLit"), Leaf("Expr") } \cup Selectors
      [] p.kind = "TypeSpec" -> { p.child } \cup TypeExprs \cup Selectors
      [] p.kind = "Stmt" ->
            { Leaf("Stmt"), Leaf("CommClause"), Leaf("Expr"), Leaf("BasicLit") }
                \cup Idents \cup Selectors \cup Stars \cup GenDecls
      [] p.kind = "CommClause" -> { Leaf("Stmt") }
      [] p.kind = "Expr" ->
            { Leaf("Expr"), Leaf("BasicLit"), Leaf("KeyValueExpr"), Leaf("Ellipsis") }
                \cup Idents \cup Selectors \cup Stars \cup { Leaf(k) : k \in CompositeTypes }
      [] p.kind = "KeyValueExpr" -> { Leaf("Expr"), Leaf("BasicLit") } \cup Idents
      [] p.kind = "SelectorExpr" ->
            { p.child, Leaf("Expr"), Ident("PkgName"), Ident("Var"), Ident("none") }
      [] p.kind = "StarExpr" -> { Leaf("Expr") } \cup Idents \cup Selectors
      [] p.kind = "ArrayType" -> { Leaf("Ellipsis"), Leaf("BasicLit") } \cup TypeExprs
      [] p.kind \in {"StructType", "FuncType", "InterfaceType"} -> { Leaf("FieldList") }
      [] p.kind \in {"MapType", "ChanType"} -> TypeExprs
      [] p.kind = "FieldList" -> Fields
      [] p.kind = "Field" ->
            (IF p.n = 1 THEN { p.child }
             ELSE IF p.n = 0 THEN {}
             ELSE { Ident("Var"), Ident("Func"), Ident("none") })
                \cup TypeExprs \cup Selectors \cup { Leaf("Ellipsis"), Leaf("BasicLit") }
      [] p.kind = "Ellipsis" -> TypeExprs
      [] OTHER -> {}

Run(path) == [path |-> path, act |-> "none", st |-> "run"]
Return(path, act) == [path |-> path, act |-> act, st |-> "done"]
Panic(path) == [path |-> path, act |-> "none", st |-> "panic"]
Descend(path) == Run(<< path[1].child >> \o path)
Ascend(path) == Run(Tail(path))
KindAt(path, i) == path[i].kind

\* case *ast.GenDecl
genDeclCase_dropsGroup(path) ==
    IF path[1].n = 1 THEN Run(<< path[1].child >> \o Tail(path)) ELSE Return(path, "unknown")
genDeclCase(path) ==
    IF path[1].n = 1 THEN Descend(path) ELSE Return(path, "unknown")

\* case *ast.ValueSpec
valueSpecCase(path) ==
    IF path[1].n = 1 THEN Descend(path) ELSE Return(path, "unknown")

\* case *ast.Field
fieldCase(path) ==
    IF path[1].n = 1 THEN Descend(path) ELSE Ascend(path)

\* case *ast.BasicLit (path[1] of the Go code is path[2] here)
basicLitCase(path) ==
    IF Len(path) < 2 THEN Panic(path)
    ELSE IF KindAt(path, 2) = "ImportSpec" THEN Return(Tail(path), "package")
    ELSE Return(path, "expr")

\* case *ast.SelectorExpr
selectorCase(path) ==
    IF path[1].child.obj = "none" THEN Return(path, "unknown") ELSE Descend(path)

\* case *types.Var of the identifier switch
varCase_anyFieldIsType(path) ==
    IF Len(path) >= 4 /\ KindAt(path, 2) = "Field"
    THEN Return(SubSeq(path, 4, Len(path)), "type")
    ELSE Return(path, "expr")
varCase(path) ==
    IF Len(path) < 2 THEN Panic(path)
    ELSE IF KindAt(path, 2) = "Field"
    THEN IF Len(path) < 3 \/ KindAt(path, 3) # "FieldList" THEN Panic(path)
         ELSE IF Len(path) < 4 THEN Panic(path)
         ELSE IF KindAt(path, 4) = "StructType"
              THEN Return(SubSeq(path, 4, Len(path)), "type")
              ELSE Return(path, "expr")
    ELSE Return(path, "expr")

\* "No object": the switch on path[1]; the *ast.Field case has an empty body,
\* so control leaves both switches and reaches "Ascend to parent".
noObjectCase(path) ==
    IF Len(path) < 2 THEN Panic(path)
    ELSE CASE KindAt(path, 2) = "SelectorExpr" -> Return(Tail(path), "expr")
           [] KindAt(path, 2) = "Field" -> Ascend(path)
           [] KindAt(path, 2) = "File" -> Return(path, "package")
           [] KindAt(path, 2) = "ImportSpec" -> Return(Tail(path), "package")
           [] OTHER -> Return(path, "unknown")

\* case *ast.Ident
identCase(path) ==
    CASE path[1].obj = "PkgName" -> Return(path, "package")
      [] path[1].obj = "Const" -> Return(path, "expr")
      [] path[1].obj = "Label" -> Return(path, "stmt")
      [] path[1].obj = "TypeName" -> Return(path, "type")
      [] path[1].obj = "Var" -> varCase(path)
      [] path[1].obj = "Func" -> Return(path, "expr")
      [] path[1].obj = "Builtin" -> Ascend(path)
      [] path[1].obj = "Nil" -> Return(path, "expr")
      [] OTHER -> noObjectCase(path)

\* One turn of "for len(path) > 0 { switch n := path[0].(type) ... }". The
\* cases are tried in source order: *ast.CommClause is an ast.Stmt and is
\* taken by that earlier case.
loopBody(path) ==
    IF Len(path) = 0 THEN Return(<<>>, "unknown")
    ELSE CASE KindAt(path, 1) = "GenDecl" -> genDeclCase(path)
           [] KindAt(path, 1) = "FuncDecl" -> Descend(path)
           [] KindAt(path, 1) = "ImportSpec" -> Return(path, "package")
           [] KindAt(path, 1) = "ValueSpec" -> valueSpecCase(path)
           [] KindAt(path, 1) = "TypeSpec" -> Descend(path)
           [] KindAt(path, 1) \in {"Stmt", "CommClause"} -> Return(path, "stmt")
           [] KindAt(path, 1) \in CompositeTypes -> Return(path, "type")
           [] KindAt(path, 1) \in {"Comment", "CommentGroup", "File", "KeyValueExpr"} ->
                Return(path, "unknown")
           [] KindAt(path, 1) = "Ellipsis" -> Ascend(path)
           [] KindAt(path, 1) = "Field" -> fieldCase(path)
           [] KindAt(path, 1) = "FieldList" -> Ascend(path)
           [] KindAt(path, 1) = "BasicLit" -> basicLitCase(path)
           [] KindAt(path, 1) = "SelectorExpr" -> selectorCase(path)
           [] KindAt(path, 1) = "Ident" -> identCase(path)
           [] KindAt(path, 1) = "StarExpr" ->
                IF path[1].isType THEN Return(path, "type") ELSE Return(path, "expr")
           [] OTHER -> Return(path, "expr")

\* The caller starts at the file root ...
InitClassify ==
    /\ cpath0 = << Leaf("File") >>
    /\ cpath = cpath0
    /\ cact = "none"
    /\ cst = "build"

\* ... steps down to a child c of its innermost node, any number of times ...
Extend(c) ==
    /\ cst = "build"
    /\ Len(cpath0) < MaxDepth
    /\ c \in Children(cpath0[1])
    /\ cpath0' = << c >> \o cpath0
    /\ cpath' = cpath0'
    /\ UNCHANGED <<cact, cst>>
    /\ UNCHANGED <<cacheVars, encVars>>

\* ... and calls findInterestingNode(pkg, path) on the ancestor path reached.
ClassifyCall ==
    /\ cst = "build"
    /\ cst' = "run"
    /\ UNCHANGED <<cpath0, cpath, cact>>
    /\ UNCHANGED <<cacheVars, encVars>>

IdleClassify ==
    /\ cpath0 = <<>> /\ cpath = <<>> /\ cact = "none" /\ cst = "idle"

ClassifyStep ==
    /\ cst = "run"
    /\ LET r == loopBody(cpath)
       IN  /\ cpath' = r.path
           /\ cact' = r.act
           /\ cst' = r.st
    /\ UNCHANGED cpath0
    /\ UNCHANGED <<cacheVars, encVars>>

\* --------------------------------------------------------- specifications

IdleCache ==
    /\ desc = [p \in Paths |-> <<>>]
    /\ units = <<>>
    /\ pathMap = [p \in Paths |-> Nil]
    /\ mu = [w |-> Nil, active |-> FALSE, r |-> [t \in Threads |-> 0]]
    /\ pc = [t \in Threads |-> "idle"]
    /\ stack = [t \in Threads |-> <<>>]
    /\ arg = [t \in Threads |-> Nil]
    /\ ret = [t \in Threads |-> Nil]
    /\ walk = [t \in Threads |-> NoWalk]
    /\ calls = 0
    /\ addLog = [q \in Paths |-> 0]
    /\ declRes = NoDecl

\* The cache driven by a single goroutine: Add, Get, Walk and declaration
\* queries, one call after the other.
InitSeq == InitCache /\ IdleEnclose /\ IdleClassify

NextSeq ==
    \/ \E root \in Paths : AddCall(1, root)
    \/ GgpRLock(1)
    \/ GgpRead(1)
    \/ AddRecurse(1)
    \/ AddLoopEnd(1)
    \/ AddPut(1)
    \/ \E q \in Paths : GetCall(1, q)
    \/ GetRLock(1)
    \/ GetRead(1)
    \/ WalkCall(1)
    \/ WalkRLock(1)
    \/ \E k \in Paths, r \in BOOLEAN : WalkVisit(1, k, r)
    \/ WalkEnd(1)
    \/ \E a \in Paths, o \in Objects : DeclarationNode(1, a, o)

Spec == InitSeq /\ [][NextSeq]_vars

\* The cache called from all goroutines at once.
InitConc == InitCache /\ IdleEnclose /\ IdleClassify

NextConc ==
    \E t \in Threads :
        \/ \E root \in Paths : AddCall(t, root)
        \/ GgpRLock(t)
        \/ GgpRead(t)
        \/ AddRecurse(t)
        \/ AddLoopEnd(t)
        \/ AddPut(t)
        \/ \E u \in 1..Len(units) : PutCall(t, u)
        \/ PutLockRequest(t)
        \/ PutLockAcquire(t)
        \/ PutBody(t)
        \/ \E q \in Paths : GetCall(t, q)
        \/ GetRLock(t)
        \/ GetRead(t)
        \/ WalkCall(t)
        \/ WalkRLock(t)
        \/ \E k \in Paths, r \in BOOLEAN : WalkVisit(t, k, r)
        \/ WalkEnd(t)
        \/ MapRaceFatal(t)

SpecConc == InitConc /\ [][NextConc]_vars

\* The cache written through Add alone, from all goroutines at once, every
\* access to the map taken as one indivisible step.
InitAdds == InitCache /\ IdleEnclose /\ IdleClassify

NextAdds ==
    \E t \in Threads :
        \/ \E root \in Paths : AddCall(t, root)
        \/ GgpRLock(t)
        \/ GgpRead(t)
        \/ AddRecurse(t)
        \/ AddLoopEnd(t)
        \/ AddPut(t)
        \/ \E q \in Paths : GetCall(t, q)
        \/ GetRLock(t)
        \/ GetRead(t)
        \/ WalkCall(t)
        \/ WalkRLock(t)
        \/ \E k \in Paths, r \in BOOLEAN : WalkVisit(t, k, r)
        \/ WalkEnd(t)

SpecAdds == InitAdds /\ [][NextAdds]_vars

\* Add called by one goroutine, one call after the other; the goroutine keeps
\* running while it is inside a call.
AddStep(t) == GgpRLock(t) \/ GgpRead(t) \/ AddRecurse(t) \/ AddLoopEnd(t) \/ AddPut(t)

InitAddSeq == InitCache /\ IdleEnclose /\ IdleClassify

NextAddSeq ==
    \/ \E root \in Paths : AddCall(1, root)
    \/ GgpRLock(1)
    \/ GgpRead(1)
    \/ AddRecurse(1)
    \/ AddLoopEnd(1)
    \/ AddPut(1)

SpecAddSeq == InitAddSeq /\ [][NextAddSeq]_vars /\ WF_vars(AddStep(1))

\* Walk with a visitor that calls Get, next to Add and Put from the other
\* goroutines.
InitVisitor == InitCache /\ IdleEnclose /\ IdleClassify

NextVisitor ==
    \E t \in Threads :
        \/ \E root \in Paths : AddCall(t, root)
        \/ GgpRLock(t)
        \/ GgpRead(t)
        \/ AddRecurse(t)
        \/ AddLoopEnd(t)
        \/ AddPut(t)
        \/ \E u \in 1..Len(units) : PutCall(t, u)
        \/ PutLockRequest(t)
        \/ PutLockAcquire(t)
        \/ PutBody(t)
        \/ WalkCall(t)
        \/ WalkRLock(t)
        \/ \E k \in Paths, r \in BOOLEAN : WalkVisitGet(t, k, r)
        \/ VisitGetRLock(t)
        \/ VisitGetRead(t)
        \/ WalkEnd(t)

SpecVisitor == InitVisitor /\ [][NextVisitor]_vars

\* Concurrent Add calls alone, with the outcomes of the races on the map that
\* c.put(p) without the lock allows.
InitAddsRace == InitCache /\ IdleEnclose /\ IdleClassify

NextAddsRace ==
    \E t \in Threads :
        \/ \E root \in Paths : AddCall(t, root)
        \/ GgpRLock(t)
        \/ GgpRead(t)
        \/ AddRecurse(t)
        \/ AddLoopEnd(t)
        \/ AddPut(t)
        \/ MapRaceFatal(t)
        \/ MapRaceLostWrite(t)

SpecAddsRace == InitAddsRace /\ [][NextAddsRace]_vars

\* EnclosingPath queries over every layout of a unit's files.
InitEnc == IdleCache /\ InitEnclose /\ IdleClassify

NextEnc == EnclosingPath

SpecEnclose == InitEnc /\ [][NextEnc]_vars

\* findInterestingNode run on every well-formed ancestor path.
InitCls == IdleCache /\ IdleEnclose /\ InitClassify

AllNodes ==
    Idents \cup GenDecls \cup Specs \cup FuncDecls \cup Fields \cup Selectors \cup Stars
        \cup { Leaf(k) : k \in CompositeTypes \cup
                {"Stmt", "CommClause", "Expr", "BasicLit", "KeyValueExpr", "Ellipsis",
                 "FieldList", "Comment", "CommentGroup"} }

NextCls ==
    \/ \E c \in AllNodes : Extend(c)
    \/ ClassifyCall
    \/ ClassifyStep

SpecClassify == InitCls /\ [][NextCls]_vars

\* findInterestingNode run on every chain of nodes, whether or not a parsed
\* file can contain it: the function accepts any []ast.Node.
MaxChain == 2

InitChain ==
    /\ IdleCache /\ IdleEnclose
    /\ cpath0 = <<>> /\ cpath = <<>> /\ cact = "none" /\ cst = "build"

ExtendAny(c) ==
    /\ cst = "build"
    /\ Len(cpath0) < MaxChain
    /\ cpath0' = << c >> \o cpath0
    /\ cpath' = cpath0'
    /\ UNCHANGED <<cact, cst>>
    /\ UNCHANGED <<cacheVars, encVars>>

NextChain ==
    \/ \E c \in AllNodes : ExtendAny(c)
    \/ ClassifyCall
    \/ ClassifyStep

SpecChain == InitChain /\ [][NextChain]_vars

\* ------------------------------------------------------------------ claims
Cached == { q \in Paths : pathMap[q] # Nil }
ImportsOf(q) == { desc[q][i] : i \in 1..Len(desc[q]) }
AddedRoots == { q \in Paths : addLog[q] > 0 }

\* Steps the loop may take before the result is read (a run that has not
\* returned by then is reported as still running).
MaxSteps == 20

\* findInterestingNode as a function of its path argument.
RECURSIVE classifyFrom(_, _)
classifyFrom(r, fuel) ==
    IF r.st # "run" \/ fuel = 0 THEN r ELSE classifyFrom(loopBody(r.path), fuel - 1)

findInterestingNode(path) == classifyFrom(Run(path), MaxSteps)

C2_EdgesKeyedByImportedPath ==
    (pc[1] = "idle" /\ Cardinality(AddedRoots) = 1 /\ \A q \in AddedRoots : addLog[q] = 1) =>
        /\ Cached = ReachFrom(desc, AddedRoots)
        /\ \A p \in Cached : \A q \in ImportsOf(p) :
              /\ units[pathMap[p]].imports[q] # Nil
              /\ units[pathMap[p]].imports[q] = get(pathMap, q)

\* C3 (as claimed): a goroutine inside put holds the exclusive lock, so no
\* other goroutine is in a read section or inside put at the same time.
C3_LockDiscipline ==
    \A t \in Threads : InPut(t) =>
        /\ mu.w = t /\ mu.active
        /\ \A u \in Threads \ {t} : mu.r[u] = 0 /\ ~InPut(u)

\* C4: a step of an Add call whose root and all transitive imports are
\* already cached changes neither the path map nor any unit (none is
\* constructed, no edge changes), and the call returns after its presence check.
C4_AddIdempotent ==
    [][ ( /\ pc[1] = "add" /\ Len(stack[1]) = 1
          /\ stack[1][1].pc \in {"ggp_rlock", "ggp_read"}
          /\ ReachFrom(desc, {stack[1][1].pkg}) \subseteq Cached )
        => ( /\ pathMap' = pathMap
             /\ units' = units
             /\ (stack[1][1].pc = "ggp_read" => pc'[1] = "idle") ) ]_vars

\* C4 witness: the same root has been added twice and both calls returned.
C4_Witness ==
    /\ pc[1] = "idle"
    /\ \E q \in Paths : addLog[q] >= 2

\* C5: when Walk returns, no visitor call was made after one that answered
\* true (so a first true on the k-th unit means exactly k calls), no unit
\* was visited twice, only cached units were visited, and if no call answered
\* true every unit of the cache was visited.
C5_WalkEarlyExit ==
    [][ (pc[1] = "walk_loop" /\ pc'[1] = "idle") =>
        LET log == walk'[1].log
            n == Len(log)
        IN  /\ \A i \in 1..n : log[i].r => i = n
            /\ \A i, j \in 1..n : log[i].unit = log[j].unit => i = j
            /\ \A i \in 1..n : \E q \in Cached : pathMap[q] = log[i].unit
            /\ (n = 0 \/ ~log[n].r) =>
                  { log[i].unit : i \in 1..n } = { pathMap[q] : q \in Cached } ]_vars

\* C5 witness: a walk over three units that returned on the second visit.
C5_Witness ==
    /\ walk[1].returned /\ pc[1] = "idle"
    /\ Cardinality(walk[1].start) = 3
    /\ Len(walk[1].log) = 2 /\ walk[1].log[2].r

\* C6 (as claimed): for a unit A that imports B and a symbol declared in B,
\* DeclarationNode(A, S) returns S's declaring identifier from B when B is in
\* the cache, and fails with missing-import, returning no node, when it is not.
C6_CrossPackageResolution ==
    ( /\ declRes.called
      /\ declRes.obj.pkg \in ImportsOf(units[declRes.unit].pkgPath)
      /\ declRes.obj.pos = FileBase(declRes.obj.pkg) + 1 )
    => IF pathMap[declRes.obj.pkg] # Nil
       THEN /\ declRes.res.err = "none"
            /\ declRes.res.ident = AstFile(declRes.obj.pkg, TRUE).nodes[1]
       ELSE /\ declRes.res.err = "missing-import"
            /\ declRes.res.ident = Nil

IsVarIdent(n) == n.kind = "Ident" /\ n.obj = "Var"
InStructField(path) ==
    /\ Len(path) >= 4
    /\ KindAt(path, 2) = "Field" /\ KindAt(path, 3) = "FieldList"
    /\ KindAt(path, 4) = "StructType"

\* C8: called on a variable identifier, the classifier returns type at the
\* struct-type node exactly when the three nearest ancestors are field,
\* field-list, struct-type; in every other context it returns expression at
\* the identifier itself.
C8_StructFieldTieBreak ==
    (cst \in {"done", "panic"} /\ IsVarIdent(cpath0[1])) =>
        /\ cst = "done"
        /\ IF InStructField(cpath0)
           THEN cact = "type" /\ cpath = SubSeq(cpath0, 4, Len(cpath0))
           ELSE cact = "expr" /\ cpath = cpath0

\* C8 witness: a struct member name classified as type at the struct type.
C8_Witness ==
    /\ cst = "done" /\ IsVarIdent(cpath0[1]) /\ InStructField(cpath0)
    /\ cact = "type" /\ cpath[1].kind = "StructType"

\* C9: a grouped declaration with one spec is classified exactly as the path
\* that starts at that spec; one with more specs is unknown at the group.
C9_GroupedDeclDescent ==
    (cst = "done" /\ cpath0[1].kind = "GenDecl") =>
        IF cpath0[1].n = 1
        THEN LET r == findInterestingNode(<< cpath0[1].child >> \o cpath0)
             IN  r.st = "done" /\ cpath = r.path /\ cact = r.act
        ELSE cact = "unknown" /\ cpath = cpath0

\* C9 witness: a single-spec type declaration classified as type at the name.
C9_Witness ==
    /\ cst = "done" /\ cpath0[1].kind = "GenDecl" /\ cpath0[1].n = 1
    /\ cact = "type" /\ Len(cpath) = Len(cpath0) + 2

\* C10 (as claimed): called on an identifier with no object, the classifier
\* decides by the parent alone and neither ascends nor descends before it
\* returns: selector parent gives expression at the parent, file parent gives
\* package, import-spec parent gives package at the parent, and every other
\* parent, a field included, gives unknown at the identifier.
C10_NoObjectByParent ==
    (Len(cpath0) >= 2 /\ cpath0[1] = Ident("none") /\ cst \in {"run", "done", "panic"}) =>
        /\ cst = "run" => cpath = cpath0
        /\ cst # "panic"
        /\ cst = "done" =>
              CASE KindAt(cpath0, 2) = "SelectorExpr" -> cact = "expr" /\ cpath = Tail(cpath0)
                [] KindAt(cpath0, 2) = "File" -> cact = "package"
                [] KindAt(cpath0, 2) = "ImportSpec" -> cact = "package" /\ cpath = Tail(cpath0)
                [] OTHER -> cact = "unknown" /\ cpath = cpath0

\* C11 (as claimed): every import edge of every unit, published or not,
\* points to the instance the cache currently maps under that instance's
\* import path.
C11_EdgeTargetCanonical ==
    \A u \in 1..Len(units) : \A k \in Paths :
        units[u].imports[k] # Nil =>
            pathMap[units[units[u].imports[k]].pkgPath] = units[u].imports[k]

\* C12 (as claimed): under concurrent Add calls at most one unit is ever
\* constructed per import path, and a step of Add never replaces or removes an
\* instance the cache maps a path to.
C12_SingleCreation ==
    /\ [](\A q \in Paths : Cardinality(Instances(q)) <= 1)
    /\ [][ \A q \in Paths : pathMap[q] # Nil => pathMap'[q] = pathMap[q] ]_vars

\* C13 (as claimed): a run that consumed its whole non-empty chain without a
\* verdict (the loop ended on the empty path) ends in a failure that is told apart
\* from the classification unknown.
C13_ExhaustionReported ==
    (cst = "done" /\ cpath0 # <<>> /\ cpath = <<>>) => cact # "unknown"

\* C14 (as claimed): started on a well-formed ancestor path, the loop ends
\* within MaxSteps turns with a verdict and a non-empty path.
C14_ClassifierTerminates ==
    cst = "run" =>
        LET r == findInterestingNode(cpath0)
        IN  r.st = "done" /\ r.path # <<>>

\* The paths the edges of unit u lead to.
EdgeTargets(u) ==
    { units[units[u].imports[k]].pkgPath : k \in { j \in Paths : units[u].imports[j] # Nil } }

\* C15 (as claimed): a unit that has been inserted (its recursiveAdd call has
\* run c.put) holds an edge for every import of its descriptor, and no step
\* changes the imports map of an inserted unit.
C15_PublishOrdering ==
    /\ [](\A u \in 1..Len(units) :
            ~Owned(u) => ImportsOf(units[u].pkgPath) \subseteq EdgeTargets(u))
    /\ [][ \A u \in 1..Len(units) :
            ~Owned(u) => units'[u].imports = units[u].imports ]_vars

\* C16: sequential Add calls on an acyclic descriptor graph. No import path
\* ever has two units constructed for it; when a call has returned, exactly
\* the paths reachable from the added roots are cached, one unit each; a
\* presence check that finds its path returns at once, constructing nothing
\* and starting no recursion; and every call returns.
C16_AddTerminatesSingleVisit ==
    /\ [](\A q \in Paths : Cardinality(Instances(q)) <= 1)
    /\ [](pc[1] = "idle" =>
            /\ Cached = ReachFrom(desc, AddedRoots)
            /\ \A q \in Cached : Instances(q) = { pathMap[q] }
            /\ Len(units) = Cardinality(Cached))
    /\ [][ (pc[1] = "add" /\ Top(1).pc = "ggp_read" /\ pathMap[Top(1).pkg] # Nil) =>
             /\ Len(units') = Len(units)
             /\ pathMap' = pathMap
             /\ stack'[1] = SubSeq(stack[1], 1, Len(stack[1]) - 1) ]_vars
    /\ (pc[1] = "add") ~> (pc[1] = "idle")

\* C16 witness: Add of the root of a diamond (1 imports 2 and 3, 2 imports 3)
\* has returned with three units constructed: the second occurrence of 3 was
\* resolved by the presence check.
C16_Witness ==
    /\ pc[1] = "idle" /\ addLog[1] = 1 /\ addLog[2] = 0 /\ addLog[3] = 0
    /\ desc[1] = <<2, 3>> /\ desc[2] = <<3>>
    /\ Len(units) = 3 /\ Cached = {1, 2, 3}

\* Goroutine t, inside Walk and holding its read lock, waits in the visitor's
\* Get for a second read lock, which the pending Lock of goroutine u holds
\* off; u waits in Put for the read lock of t to be released. Neither can
\* take a step again.
WalkerWriterStuck(t, u) ==
    /\ pc[t] = "visit_rlock" /\ mu.r[t] > 0 /\ ~CanRLock
    /\ pc[u] = "put_wait" /\ mu.w = u /\ ~CanLockAcquire(u)

\* C17 (as claimed): with a visitor that only reads the cache (it calls Get),
\* no state is reachable in which the walker and a goroutine inside Put wait
\* on each other forever.
C17_ReadOnlyVisitorNoDeadlock ==
    \A t, u \in Threads : t # u => ~WalkerWriterStuck(t, u)

\* C18 (as claimed): with the cache written through Add alone, the cached
\* paths are closed under the import relation of the descriptors: every
\* import, direct or transitive, of a cached unit is cached.
C18_ImportClosure ==
    ReachFrom(desc, Cached) \subseteq Cached

====
